---- MODULE Spec2Model ----
(***************************************************************************)
(* immcheck: deep structural fingerprinting of Go values and detection of  *)
(* mutations of values declared immutable.                                 *)
(*                                                                         *)
(* The model follows the Options/uint32 revision of the engine             *)
(* (src/unnamed/part_001, lines 103-634): ValueSnapshot, the snapshot      *)
(* pool, EnsureImmutability and its callback, the finalizer check, the     *)
(* kind-driven walker captureChecksumMap and checksumEquals.               *)
(*                                                                         *)
(* A Go value graph is a heap of nodes.  Every node is one reflect.Value   *)
(* the walker can meet: its kind, the address of its own storage, the      *)
(* pointer word it holds and its children.  Machine words are scaled:      *)
(* uint32 is KeyBits wide and uintptr is AddrBits wide, AddrBits >         *)
(* KeyBits, so that the truncation uint32(uintptr) loses bits as it does   *)
(* on a 64-bit build.                                                      *)
(***************************************************************************)
EXTENDS Integers, Sequences, FiniteSets, TLC

(***************************************************************************)
(* reflect.Kind, with the numbers of the Go runtime (evalKey xors them     *)
(* into the fingerprint key).                                              *)
(***************************************************************************)
Kind ==
    [ Invalid |-> 0, Bool |-> 1, Int |-> 2, Uint8 |-> 8, Uint16 |-> 9,
      Uint64 |-> 11, Float64 |-> 14, Array |-> 17, Chan |-> 18, Func |-> 19,
      Interface |-> 20, Map |-> 21, Ptr |-> 22, Slice |-> 23, String |-> 24,
      Struct |-> 25, UnsafePointer |-> 26 ]

ScalarKinds ==
    { Kind.Bool, Kind.Int, Kind.Uint8, Kind.Uint16, Kind.Uint64, Kind.Float64 }

UnsafeKinds == { Kind.UnsafePointer, Kind.Func, Kind.Chan }

\* Width of uint32 in the model (bits) and of uintptr (bits).
KeyBits == 16
AddrBits == 18

RECURSIVE Pow2(_)
Pow2(n) == IF n = 0 THEN 1 ELSE 2 * Pow2(n - 1)

KeyMod == Pow2(KeyBits)
AddrMod == Pow2(AddrBits)

\* Bitwise exclusive or of two naturals.
RECURSIVE Xor(_, _)
Xor(a, b) ==
    IF a = 0 THEN b
    ELSE IF b = 0 THEN a
    ELSE ((a + b) % 2) + 2 * Xor(a \div 2, b \div 2)

\* uint32(x): truncation of a machine word to the key width.
U32(x) == x % KeyMod

(***************************************************************************)
(* Value graphs.  A node is one reflect.Value:                             *)
(*   kind  its reflect.Kind                                                *)
(*   loc   address of the value's own storage                              *)
(*   ca    reflect.Value.CanAddr                                           *)
(*   ptr   the pointer word it holds: data pointer of a slice or string,   *)
(*         header pointer of a map, handle of a chan/func/unsafe pointer   *)
(*   val   the bits of a scalar                                            *)
(*   str   the bytes of a string                                           *)
(*   kids  fields of a struct, items of an array or slice, k1,v1,k2,v2,..  *)
(*         of a map, <<pointee>> of a non-nil pointer or interface         *)
(*   alts  what a mutation may store there: pointees for a pointer,        *)
(*         handles for an unsafe kind, strings (indices) for a string      *)
(*   hid   state behind an unsafe handle, which the walker never reads     *)
(***************************************************************************)
Node(k, loc, ca, ptr, val, str, kids, alts) ==
    [ kind |-> k, loc |-> loc, ca |-> ca, ptr |-> ptr, val |-> val,
      str |-> str, kids |-> kids, alts |-> alts, hid |-> 0 ]

Scalar(k, loc, v) == Node(k, loc, TRUE, 0, v, <<>>, <<>>, {})
Boxed(k, loc, v) == Node(k, loc, FALSE, 0, v, <<>>, <<>>, {})
Struct(loc, fields) == Node(Kind.Struct, loc, TRUE, 0, 0, <<>>, fields, {})
Array(loc, items) == Node(Kind.Array, loc, TRUE, 0, 0, <<>>, items, {})
Slice(loc, data, items) == Node(Kind.Slice, loc, TRUE, data, 0, <<>>, items, {})
String(loc, ca, data, bytes) ==
    Node(Kind.String, loc, ca, data, 0, bytes, <<>>, {})
Map(loc, hdr, entries) == Node(Kind.Map, loc, TRUE, hdr, 0, <<>>, entries, {})
Ptr(loc, ca, elem, alts) == Node(Kind.Ptr, loc, ca, 0, 0, <<>>, elem, alts)
Iface(loc, ca, elem) == Node(Kind.Interface, loc, ca, 0, 0, <<>>, elem, {})
Handle(k, loc, h, alts) == Node(k, loc, TRUE, h, 0, <<>>, <<>>, alts)

KindOf(h, n) == IF n = 0 THEN Kind.Invalid ELSE h[n].kind

\* The address a non-nil pointer holds: where its pointee is stored.
PointerWord(h, n) ==
    LET v == h[n] IN
    IF v.kind = Kind.Ptr
    THEN IF v.kids = <<>> THEN 0 ELSE h[v.kids[1]].loc
    ELSE v.ptr

\* The closure objects of the model: where each is stored and the code of
\* the function literal it was made from.  Two closures of one literal
\* share the code.
Closures ==
    { [ fn |-> 9400, code |-> 640 ], [ fn |-> 9408, code |-> 704 ],
      [ fn |-> 9416, code |-> 640 ] }

CodePointer(fn) ==
    IF fn = 0 THEN 0 ELSE (CHOOSE c \in Closures : c.fn = fn).code

\* reflect.Value.Pointer: the pointer word, and for a func the code pointer
\* its closure object holds.
Pointer(h, n) ==
    IF h[n].kind = Kind.Func THEN CodePointer(h[n].ptr) ELSE PointerWord(h, n)

\* The data word of an interface value: the pointer itself when the dynamic
\* value is pointer-shaped, else the address of the boxed dynamic value.
IfaceWord(h, n) ==
    LET v == h[n] IN
    IF v.kids = <<>> THEN 0
    ELSE LET e == v.kids[1] IN
         IF h[e].kind \in { Kind.Ptr, Kind.Map, Kind.Chan, Kind.Func,
                            Kind.UnsafePointer }
         THEN PointerWord(h, e)
         ELSE h[e].loc

IsNil(h, n) ==
    LET v == h[n] IN
    IF v.kind \in { Kind.Ptr, Kind.Interface } THEN v.kids = <<>>
    ELSE v.ptr = 0

RECURSIVE Raw(_, _)
RECURSIVE RawAll(_, _, _)

\* The words of the values s[i], s[i+1], .. laid out one after another.
RawAll(h, s, i) ==
    IF i > Len(s) THEN <<>> ELSE Raw(h, s[i]) \o RawAll(h, s, i + 1)

\* The words of memory a value occupies (its representation, not what it
\* points at).
Raw(h, n) ==
    LET v == h[n]
    IN  CASE v.kind \in ScalarKinds -> << v.val >>
          [] v.kind \in { Kind.Struct, Kind.Array } -> RawAll(h, v.kids, 1)
          [] v.kind = Kind.Ptr -> << PointerWord(h, n) >>
          [] v.kind = Kind.Slice -> << v.ptr, Len(v.kids) >>
          [] v.kind = Kind.String -> << v.ptr, Len(v.str) >>
          [] v.kind = Kind.Interface ->
                << IF v.kids = <<>> THEN 0 ELSE h[v.kids[1]].kind,
                   IfaceWord(h, n) >>
          [] OTHER -> << v.ptr >>

(***************************************************************************)
(* Options: the Flags bit mask.  The log writer is left out: every log     *)
(* entry goes to the one destination the options name.                     *)
(***************************************************************************)
SkipOriginCapturing == 1
AllowInherentlyUnsafeTypes == 2
SkipPanicOnDetectedMutation == 4
SkipLoggingOnMutation == 8

\* A walker that takes the opt-in for granted.
HasFlag_OptedIn(options, flag) ==
    \/ flag = AllowInherentlyUnsafeTypes
    \/ (options.Flags \div flag) % 2 = 1

\* options.Flags & flag # 0
HasFlag(options, flag) == (options.Flags \div flag) % 2 = 1

(***************************************************************************)
(* Addresses and bytes                                                     *)
(***************************************************************************)
\* pointerOfValue: the pointer a chan, func, map, pointer, slice or unsafe
\* pointer holds, the data pointer of a string, else the address of the
\* value (CanAddr), else the data word of the value boxed in an interface.
pointerOfValue(h, n) ==
    LET v == h[n] IN
    CASE v.kind \in { Kind.Chan, Kind.Func, Kind.Map, Kind.Ptr, Kind.Slice,
                      Kind.UnsafePointer } -> Pointer(h, n)
      [] v.kind = Kind.String -> v.ptr
      [] OTHER -> IF v.ca THEN v.loc
                  ELSE IF v.kind = Kind.Interface THEN IfaceWord(h, n)
                  ELSE v.loc

\* convertValueTypeToBytesSlice: Type().Size() bytes at the value's address.
convertValueTypeToBytesSlice(h, n) == Raw(h, n)

\* convertSliceBasedTypeToByteSlice: Len() * item size bytes at the data
\* pointer.
convertSliceBasedTypeToByteSlice(h, n) ==
    LET v == h[n]
    IN  IF v.kind = Kind.String THEN v.str ELSE RawAll(h, v.kids, 1)

\* The content hash (xxhash / crc32 truncated to uint32): a deterministic
\* function of the bytes alone.
RECURSIVE Mix(_, _, _)
Mix(bytes, i, acc) ==
    IF i > Len(bytes) THEN acc
    ELSE Mix(bytes, i + 1, (acc * 37 + bytes[i] + 1) % 65521)

hashSum(bytes) == U32(Mix(bytes, 1, Len(bytes) + 7))

evalKey32(valuePointer, kind) == Xor(valuePointer, kind)

evalKey(valuePointer, kind) == Xor(U32(valuePointer), kind)

(***************************************************************************)
(* The walker.  A traversal state st is the checksums map under            *)
(* construction (cs), the panic that aborted the traversal (err) and the   *)
(* values captureChecksumMap was called on, in call order (trail).         *)
(***************************************************************************)
Put(cs, k, x) == [ y \in DOMAIN cs \cup {k} |-> IF y = k THEN x ELSE cs[y] ]

capturePointer(st, valuePointer, valueKind) ==
    [ st EXCEPT !.cs = Put(@, evalKey(valuePointer, valueKind),
                           U32(valuePointer)) ]

captureRawBytesLevelChecksum(st, valueBytes, valueKind) ==
    LET sum == hashSum(valueBytes) IN
    [ st EXCEPT !.cs = Put(@, evalKey32(sum, valueKind), sum) ]

RECURSIVE valueIsPrimitive(_, _)

\* A classification that looks at the kinds of a struct's own fields only.
valueIsPrimitive_Shallow(h, n) ==
    LET v == h[n] IN
    CASE v.kind \in ScalarKinds -> TRUE
      [] v.kind = Kind.Struct ->
            \A i \in 1..Len(v.kids) :
                h[v.kids[i]].kind \in ScalarKinds \cup { Kind.Struct }
      [] OTHER -> FALSE

valueIsPrimitive(h, n) ==
    LET v == h[n] IN
    CASE v.kind \in ScalarKinds -> TRUE
      [] v.kind = Kind.Struct ->
            \A i \in 1..Len(v.kids) : valueIsPrimitive(h, v.kids[i])
      [] OTHER -> FALSE

\* Depth of nested captureChecksumMap calls at which the goroutine stack is
\* exhausted (the runtime then stops the process with a stack overflow).
MaxStack == 12

\* Longest map of the model; a map is enumerated in the order ord, a
\* permutation of 1..MaxEntries.
MaxEntries == 3

RECURSIVE captureChecksumMap(_, _, _, _, _, _)
RECURSIVE perEntrySnapshot(_, _, _, _, _, _, _)
RECURSIVE perFieldSnapshot(_, _, _, _, _, _, _)
RECURSIVE perItemSnapshot(_, _, _, _, _, _, _)

captureChecksumMap(h, ord, options, st, n, d) ==
    IF st.err # "none" THEN st
    ELSE IF d > MaxStack THEN [ st EXCEPT !.err = "StackOverflow" ]
    ELSE
    LET valueKind == KindOf(h, n)
        st1 == [ st EXCEPT !.trail = Append(@, n) ]
    IN
    CASE valueKind \in UnsafeKinds ->
            IF ~HasFlag(options, AllowInherentlyUnsafeTypes)
            THEN [ st1 EXCEPT !.err = "UnsupportedType" ]
            ELSE capturePointer(st1, Pointer(h, n), valueKind)
      [] valueKind \in { Kind.Ptr, Kind.Interface } ->
            LET valuePointer == pointerOfValue(h, n) IN
            IF IsNil(h, n) THEN capturePointer(st1, valuePointer, valueKind)
            ELSE IF evalKey(valuePointer, valueKind) \in DOMAIN st1.cs
            THEN st1
            ELSE captureChecksumMap(h, ord, options,
                     capturePointer(st1, valuePointer, valueKind),
                     h[n].kids[1], d + 1)
      [] valueKind \in ScalarKinds ->
            captureRawBytesLevelChecksum(st1,
                convertValueTypeToBytesSlice(h, n), valueKind)
      [] valueKind = Kind.Struct ->
            perFieldSnapshot(h, ord, options,
                captureRawBytesLevelChecksum(st1,
                    convertValueTypeToBytesSlice(h, n), valueKind),
                n, d, 1)
      [] valueKind \in { Kind.Array, Kind.Slice, Kind.String } ->
            perItemSnapshot(h, ord, options,
                captureRawBytesLevelChecksum(st1,
                    convertSliceBasedTypeToByteSlice(h, n), valueKind),
                n, d, 1)
      [] valueKind = Kind.Map ->
            LET valuePointer == pointerOfValue(h, n) IN
            IF IsNil(h, n) THEN capturePointer(st1, valuePointer, valueKind)
            ELSE perEntrySnapshot(h, ord, options,
                     [ st1 EXCEPT !.cs = Put(@, evalKey(valuePointer, valueKind),
                                             U32(Len(h[n].kids) \div 2)) ],
                     n, d, 1)
      [] valueKind = Kind.Invalid ->
            [ st1 EXCEPT !.err = "UnsupportedType" ]

\* A loop over mapRange that walks the keys and leaves the values out.
perEntrySnapshot_KeysOnly(h, ord, options, st, n, d, i) ==
    IF i > MaxEntries \/ st.err # "none" THEN st
    ELSE IF ord[i] > Len(h[n].kids) \div 2
    THEN perEntrySnapshot(h, ord, options, st, n, d, i + 1)
    ELSE perEntrySnapshot(h, ord, options,
             captureChecksumMap(h, ord, options, st,
                                h[n].kids[2 * ord[i] - 1], d + 1),
             n, d, i + 1)

\* A loop over mapRange that stops after its first step.
perEntrySnapshot_First(h, ord, options, st, n, d, i) ==
    IF i > 1 \/ st.err # "none" THEN st
    ELSE IF ord[i] > Len(h[n].kids) \div 2
    THEN perEntrySnapshot(h, ord, options, st, n, d, i + 1)
    ELSE LET k == h[n].kids[2 * ord[i] - 1]
             v == h[n].kids[2 * ord[i]]
             afterKey == captureChecksumMap(h, ord, options, st, k, d + 1)
             afterValue ==
                 captureChecksumMap(h, ord, options, afterKey, v, d + 1)
         IN  perEntrySnapshot(h, ord, options, afterValue, n, d, i + 1)

\* The i-th step of the loop over mapRange: the key, then the value.
perEntrySnapshot(h, ord, options, st, n, d, i) ==
    IF i > MaxEntries \/ st.err # "none" THEN st
    ELSE IF ord[i] > Len(h[n].kids) \div 2
    THEN perEntrySnapshot(h, ord, options, st, n, d, i + 1)
    ELSE LET k == h[n].kids[2 * ord[i] - 1]
             v == h[n].kids[2 * ord[i]]
             afterKey == captureChecksumMap(h, ord, options, st, k, d + 1)
             afterValue ==
                 captureChecksumMap(h, ord, options, afterKey, v, d + 1)
         IN  perEntrySnapshot(h, ord, options, afterValue, n, d, i + 1)

\* A loop over the fields that walks the primitive fields as well.
perFieldSnapshot_AllFields(h, ord, options, st, n, d, i) ==
    IF i > Len(h[n].kids) \/ st.err # "none"
    THEN st
    ELSE perFieldSnapshot(h, ord, options,
             captureChecksumMap(h, ord, options, st, h[n].kids[i], d + 1),
             n, d, i + 1)

\* The i-th step of the loop over the fields: non-primitive fields only.
perFieldSnapshot(h, ord, options, st, n, d, i) ==
    IF valueIsPrimitive(h, n) \/ i > Len(h[n].kids) \/ st.err # "none"
    THEN st
    ELSE LET f == h[n].kids[i]
             next == IF ~valueIsPrimitive(h, f)
                     THEN captureChecksumMap(h, ord, options, st, f, d + 1)
                     ELSE st
         IN  perFieldSnapshot(h, ord, options, next, n, d, i + 1)

\* The i-th step of the loop over the items; nothing when the value is
\* empty or its first item is primitive (a string's items are bytes).
perItemSnapshot(h, ord, options, st, n, d, i) ==
    IF h[n].kind = Kind.String \/ Len(h[n].kids) = 0 THEN st
    ELSE IF valueIsPrimitive(h, h[n].kids[1]) THEN st
    ELSE IF i > Len(h[n].kids) \/ st.err # "none" THEN st
    ELSE perItemSnapshot(h, ord, options,
             captureChecksumMap(h, ord, options, st, h[n].kids[i], d + 1),
             n, d, i + 1)

(***************************************************************************)
(* ValueSnapshot                                                           *)
(***************************************************************************)
newValueSnapshot ==
    [ checksums |-> <<>>, captureOriginFile |-> "", captureOriginLine |-> 0 ]

\* ValueSnapshot.Reset
Reset(v) ==
    [ v EXCEPT !.captureOriginFile = "", !.captureOriginLine = 0,
               !.checksums = <<>> ]

\* An initialisation that keeps what the destination holds.
initValueSnapshot_NoReset(dst, options, line) ==
    IF ~HasFlag(options, SkipOriginCapturing)
    THEN [ dst EXCEPT !.captureOriginFile = "caller.go",
                      !.captureOriginLine = line ]
    ELSE dst

\* initValueSnapshot: Reset, then the caller's file and line unless
\* SkipOriginCapturing is set.
initValueSnapshot(dst, options, line) ==
    IF ~HasFlag(options, SkipOriginCapturing)
    THEN [ Reset(dst) EXCEPT !.captureOriginFile = "caller.go",
                             !.captureOriginLine = line ]
    ELSE Reset(dst)

\* A comparison without the length test: a fingerprint that is part of
\* the original passes.
checksumEquals_NoLength(newChecksum, originalChecksum) ==
    \A newSnapshotKey \in DOMAIN newChecksum :
        /\ newSnapshotKey \in DOMAIN originalChecksum
        /\ newChecksum[newSnapshotKey] = originalChecksum[newSnapshotKey]

checksumEquals(newChecksum, originalChecksum) ==
    IF Cardinality(DOMAIN newChecksum) # Cardinality(DOMAIN originalChecksum)
    THEN FALSE
    ELSE \A newSnapshotKey \in DOMAIN newChecksum :
            /\ newSnapshotKey \in DOMAIN originalChecksum
            /\ newChecksum[newSnapshotKey] = originalChecksum[newSnapshotKey]

HasOrigin(snapshot) ==
    snapshot.captureOriginFile # "" /\ snapshot.captureOriginLine # 0

\* A guard that wants both fingerprints empty.
CheckImmutabilityAgainst_BothEmpty(v, otherSnapshot) ==
    IF DOMAIN v.checksums = {} /\ DOMAIN otherSnapshot.checksums = {}
    THEN [ panic |-> TRUE, err |-> "InvalidSnapshotState", msg |-> <<>> ]
    ELSE IF checksumEquals(otherSnapshot.checksums, v.checksums)
    THEN [ panic |-> FALSE, err |-> "none", msg |-> <<>> ]
    ELSE [ panic |-> FALSE, err |-> "MutationDetected", msg |-> <<>> ]

\* ValueSnapshot.CheckImmutabilityAgainst: panics with
\* InvalidSnapshotStateError when a fingerprint is empty, returns nil when
\* the fingerprints are equal, else an error wrapping MutationDetectedError
\* with the origin lines of the two snapshots.
CheckImmutabilityAgainst(v, otherSnapshot) ==
    IF DOMAIN v.checksums = {} \/ DOMAIN otherSnapshot.checksums = {}
    THEN [ panic |-> TRUE, err |-> "InvalidSnapshotState", msg |-> <<>> ]
    ELSE IF checksumEquals(otherSnapshot.checksums, v.checksums)
    THEN [ panic |-> FALSE, err |-> "none", msg |-> <<>> ]
    ELSE [ panic |-> FALSE, err |-> "MutationDetected",
           msg |-> (IF HasOrigin(v)
                    THEN << <<"captured", v.captureOriginLine>> >>
                    ELSE <<>>)
                   \o (IF HasOrigin(otherSnapshot)
                       THEN << <<"detected", otherSnapshot.captureOriginLine>> >>
                       ELSE <<>>) ]

\* A report with the two flags taken for one another.
reportError_Swapped(options) ==
    (IF ~HasFlag(options, SkipPanicOnDetectedMutation)
     THEN << "log" >>
     ELSE <<>>)
    \o (IF ~HasFlag(options, SkipLoggingOnMutation)
        THEN << "panic" >> ELSE <<>>)

\* reportError: what the reporting of a detected mutation does, in order:
\* a log entry unless SkipLoggingOnMutation, a panic unless
\* SkipPanicOnDetectedMutation.
reportError(options) ==
    (IF ~HasFlag(options, SkipLoggingOnMutation)
     THEN << "log" >>
     ELSE <<>>)
    \o (IF ~HasFlag(options, SkipPanicOnDetectedMutation)
        THEN << "panic" >> ELSE <<>>)

(***************************************************************************)
(* The value graphs the model starts from.  Node 1 is the root value, the  *)
(* pointer handed to the library boxed in an interface{}.                  *)
(***************************************************************************)
\* Largest scalar value a mutation stores.
MaxVal == 2
Vals == 1..MaxVal

\* The strings a string variable may be set to: data pointer and bytes.
\* The third shares the data pointer of the first (bytes changed in place).
StringPool ==
    << [ ptr |-> 9000, str |-> <<70>> ],
       [ ptr |-> 9100, str |-> <<83>> ],
       [ ptr |-> 9000, str |-> <<71>> ] >>

\* uintCounter := uint64(1); &uintCounter
CounterScene ==
    << Ptr(1024, FALSE, <<2>>, {}),
       Scalar(Kind.Uint64, 4096, 1) >>

\* struct{ a, b, c *int }{&x, &y, &z} with x, y, z = 1, 2, 1
PointersScene ==
    << Ptr(1024, FALSE, <<2>>, {}),
       Struct(4096, <<3, 4, 5>>),
       Ptr(4096, TRUE, <<6>>, {}),
       Ptr(4104, TRUE, <<7>>, {}),
       Ptr(4112, TRUE, <<8>>, {}),
       Scalar(Kind.Int, 5000, 1),
       Scalar(Kind.Int, 5008, 2),
       Scalar(Kind.Int, 5016, 1) >>

\* map[string]int{"a": 1, "b": 2}; keys and values are met as copies
MapScene ==
    << Ptr(1024, FALSE, <<2>>, {}),
       Map(4096, 8192, <<3, 4, 5, 6>>),
       String(6000, FALSE, 9200, <<97>>),
       Boxed(Kind.Int, 6008, 1),
       String(6016, FALSE, 9208, <<98>>),
       Boxed(Kind.Int, 6024, 2) >>

\* head := &node{2, tail}; tail.next = head; &head
ListScene ==
    << Ptr(1024, FALSE, <<2>>, {}),
       Ptr(4096, TRUE, <<3>>, {}),
       Struct(5000, <<4, 5>>),
       Scalar(Kind.Int, 5000, 2),
       Ptr(5008, TRUE, <<6>>, {0, 6}),
       Struct(5200, <<7, 8>>),
       Scalar(Kind.Int, 5200, 1),
       Ptr(5208, TRUE, <<3>>, {0, 3, 6}) >>

\* type S []S; s := make(S, 1); s[0] = s; &s
SelfSliceScene ==
    << Ptr(1024, FALSE, <<2>>, {}),
       Slice(4096, 7000, <<3>>),
       Slice(7000, 7000, <<3>>) >>

\* realPerson := &person{age: 1, f: func(){..}}; &realPerson
FuncScene ==
    << Ptr(1024, FALSE, <<2>>, {}),
       Ptr(4096, TRUE, <<3>>, {}),
       Struct(5000, <<4, 5>>),
       Scalar(Kind.Uint16, 5000, 1),
       Handle(Kind.Func, 5008, 9400, {9400, 9408}) >>

\* next := counter(); &next.  The variable may be set to a closure of
\* another function literal, or to a second closure of the same one.
FuncVarScene ==
    << Ptr(1024, FALSE, <<2>>, {}),
       Handle(Kind.Func, 4096, 9400, {9400, 9408, 9416}) >>

\* p := unsafe.Pointer(realPerson); &p.  The handle may be set to an
\* address that differs from the first in the high bits only.
UnsafePointerScene ==
    << Ptr(1024, FALSE, <<2>>, {}),
       Handle(Kind.UnsafePointer, 4096, 9400, {9400, 9408, 9400 + KeyMod}) >>

\* ch := make(chan int, 10); &ch
ChanScene ==
    << Ptr(1024, FALSE, <<2>>, {}),
       Handle(Kind.Chan, 4096, 9400, {9400, 9408}) >>

\* var p interface{} = &person{age: 1, height: 2}; &p
InterfaceScene ==
    << Ptr(1024, FALSE, <<2>>, {}),
       Iface(4096, TRUE, <<3>>),
       Ptr(1032, FALSE, <<4>>, {}),
       Struct(5000, <<5, 6>>),
       Scalar(Kind.Uint16, 5000, 1),
       Scalar(Kind.Uint8, 5002, 2) >>

\* structs := []person{{name: "F", age: 1, parent: nil}}; &structs
PersonsScene ==
    << Ptr(1024, FALSE, <<2>>, {}),
       Slice(4096, 5000, <<3>>),
       Struct(5000, <<4, 5, 6>>),
       Node(Kind.String, 5000, TRUE, 9000, 0, <<70>>, <<>>, {1, 2, 3}),
       Scalar(Kind.Uint16, 5016, 1),
       Ptr(5024, TRUE, <<>>, {}) >>

\* struct{ m map[string]int; s []int; a [2]int; p *int }{nil, []int{}, ..}
EmptiesScene ==
    << Ptr(1024, FALSE, <<2>>, {}),
       Struct(4096, <<3, 4, 5, 8>>),
       Map(4096, 0, <<>>),
       Slice(4104, 7000, <<>>),
       Array(4128, <<6, 7>>),
       Scalar(Kind.Int, 4128, 1),
       Scalar(Kind.Int, 4136, 2),
       Ptr(4144, TRUE, <<>>, {}) >>

\* (*int)(nil)
NilPointerScene == << Ptr(1024, FALSE, <<>>, {}) >>

\* a, b := uint64(1), uint64(2); &a and &b are two values of the program
TwoCountersScene ==
    << Ptr(1024, FALSE, <<2>>, {}),
       Scalar(Kind.Uint64, 4096, 1),
       Ptr(1040, FALSE, <<4>>, {}),
       Scalar(Kind.Uint64, 4200, 2) >>

Scenes ==
    { CounterScene, PointersScene, MapScene, ListScene, SelfSliceScene,
      FuncScene, FuncVarScene, UnsafePointerScene, ChanScene, InterfaceScene,
      PersonsScene, EmptiesScene, NilPointerScene, TwoCountersScene }


\* var i interface{} = point{x: 1}; &struct{ a, b interface{} }{i, i}.  The
\* two interface fields hold the same boxed point.
TwinBoxScene ==
    << Ptr(1024, FALSE, <<2>>, {}),
       Struct(4096, <<3, 4>>),
       Iface(4096, TRUE, <<5>>),
       Iface(4112, TRUE, <<5>>),
       Node(Kind.Struct, 7000, FALSE, 0, 0, <<>>, <<6>>, {}),
       Boxed(Kind.Uint16, 7000, 1) >>

\* var i interface{} = point{x: 1}; &i.  The variable may be assigned
\* another point{x: 1}, which the runtime boxes at another address.
BoxVarScene ==
    << Ptr(1024, FALSE, <<2>>, {}),
       Node(Kind.Interface, 4096, TRUE, 0, 0, <<>>, <<3>>, {3, 5}),
       Node(Kind.Struct, 7000, FALSE, 0, 0, <<>>, <<4>>, {}),
       Boxed(Kind.Uint16, 7000, 1),
       Node(Kind.Struct, 7100, FALSE, 0, 0, <<>>, <<6>>, {}),
       Boxed(Kind.Uint16, 7100, 1) >>

\* x, y := uint64(1), uint64(1); p := &x; &p.  The addresses of x and y
\* differ in the high bits only; p may be set to &y or to nil.
FarPointerScene ==
    << Ptr(1024, FALSE, <<2>>, {}),
       Ptr(4096, TRUE, <<3>>, {0, 3, 4}),
       Scalar(Kind.Uint64, 5000, 1),
       Scalar(Kind.Uint64, 5000 + KeyMod, 1) >>

\* s := &pair{x: 1, y: 2}; &struct{ p *int; s *pair }{&s.x, s}.  The first
\* field of the pair is stored where the pair is.
FirstFieldScene ==
    << Ptr(1024, FALSE, <<2>>, {}),
       Struct(4096, <<3, 4>>),
       Ptr(4096, TRUE, <<6>>, {}),
       Ptr(4104, TRUE, <<5>>, {}),
       Struct(5000, <<6, 7>>),
       Scalar(Kind.Int, 5000, 1),
       Scalar(Kind.Int, 5008, 2) >>

\* &struct{ in struct{ a uint8; deep struct{ b bool } }
\*          who struct{ id struct{ name string } }; arr [2]int }
NestedScene ==
    << Ptr(1024, FALSE, <<2>>, {}),
       Struct(4096, <<3, 7, 10>>),
       Struct(4096, <<4, 5>>),
       Scalar(Kind.Uint8, 4096, 1),
       Struct(4097, <<6>>),
       Scalar(Kind.Bool, 4097, 1),
       Struct(4104, <<8>>),
       Struct(4104, <<9>>),
       Node(Kind.String, 4104, TRUE, 9000, 0, <<70>>, <<>>, {1, 2}),
       Array(4120, <<11, 12>>),
       Scalar(Kind.Int, 4120, 1),
       Scalar(Kind.Int, 4128, 2) >>

\* m := map[string]int{"a": 1, "b": 2}; &m.  The program may insert
\* "c": 1 and delete entries.
GrowMapScene ==
    << Ptr(1024, FALSE, <<2>>, {}),
       Node(Kind.Map, 4096, TRUE, 8192, 0, <<>>, <<3, 4, 5, 6>>, {7}),
       String(6000, FALSE, 9200, <<97>>),
       Boxed(Kind.Int, 6008, 1),
       String(6016, FALSE, 9208, <<98>>),
       Boxed(Kind.Int, 6024, 2),
       String(6032, FALSE, 9216, <<99>>),
       Boxed(Kind.Int, 6040, 1) >>

\* uintCounter := uint64(1); ch := make(chan int); &uintCounter and ch are
\* two values of the program.
ChanRootScene ==
    << Ptr(1024, FALSE, <<2>>, {}),
       Scalar(Kind.Uint64, 4096, 1),
       Node(Kind.Chan, 1040, FALSE, 9400, 0, <<>>, <<>>, {}) >>

\* The values the walker's traversal rules are examined on.
WalkScenes ==
    { TwinBoxScene, BoxVarScene, FarPointerScene, FirstFieldScene,
      NestedScene, EmptiesScene }

\* The maps the program inserts into and deletes from, and a nil map.
MapScenes == { GrowMapScene, EmptiesScene }


(***************************************************************************)
(* The program state                                                       *)
(***************************************************************************)
VARIABLES
    heap,      \* the value graph, as it is now
    opts,      \* the Options the program passes to the library
    snaps,     \* every ValueSnapshot allocated so far
    captured,  \* for the caller's snapshots: what the last capture saw
    pool,      \* tempSnapshotsPool: how many times each snapshot is in it
    callbacks, \* the functions EnsureImmutability returned
    finalizers,\* the finalizers CheckImmutabilityOnFinalization set
    log,       \* what was written to the log destinations
    out,       \* the outcome of the last operation
    left,      \* operations the run may still make
    maxSize,   \* pCache.maxSize
    stripes,   \* the cacheStripes that exist: for each its cache map
    free,      \* the cacheStripes that are in pCache.pool
    gor,       \* what each goroutine using the pCache is doing
    stored,    \* the key-value pairs store has written so far
    workers,   \* the goroutines runInPool started: what each is doing
    tasks      \* the tasks handed to runInPool: how far each has got

engineVars ==
    << heap, opts, snaps, captured, pool, callbacks, finalizers, log, out,
       left >>

cacheVars == << maxSize, stripes, free, gor, stored >>

workerVars == << workers, tasks >>

vars == << engineVars, cacheVars, workerVars >>

\* Bounds of a run.
MaxOps == 4
MaxApiOps == 2
MaxReportOps == 3
MaxMapOps == 3
MaxSnaps == 4
MaxCallbacks == 1
MaxFinalizers == 1
MaxCacheOps == 3
MaxCacheSize == 1
MaxGoroutines == 2
MaxStripes == 2
MaxTypes == 2
MaxTasks == 3

\* The caller holds two snapshots made with NewValueSnapshot.
UserSnaps == {1, 2}

SnapIds == 1..MaxSnaps

\* Source lines of the call sites runtime.Caller reports.
CallerLine ==
    [ Capture |-> 10, Ensure |-> 20, Callback |-> 30, Finalizer |-> 40,
      Register |-> 50 ]

OptionsSet == [ Flags : 0..15 ]

\* CaptureSnapshotWithOptions reads two of the flags only.
CaptureOptionsSet == [ Flags : 0..3 ]

Identity == [ i \in 1..MaxEntries |-> i ]
EntryOrders ==
    { f \in [ 1..MaxEntries -> 1..MaxEntries ] :
        \A i, j \in 1..MaxEntries : i # j => f[i] # f[j] }

\* Enumeration orders that can make a difference: all of them when the
\* graph holds a non-empty map.
Orders(h) ==
    IF \E n \in DOMAIN h : h[n].kind = Kind.Map /\ h[n].kids # <<>>
    THEN EntryOrders ELSE { Identity }

NoCapture == [ h |-> <<>>, v |-> 0, err |-> "never", trail |-> <<>> ]

NoOut ==
    [ op |-> "none", v |-> 0, err |-> "none", panicked |-> FALSE,
      events |-> <<>>, msg |-> <<>>, trail |-> <<>>, a |-> 0, b |-> 0,
      mutated |-> FALSE, cb |-> 0, stale |-> FALSE ]

\* The tasks of the finalizers, and the goroutines that may run them: one
\* is started at most for every task.
TaskIds == 1..MaxTasks
WorkerIds == 1..MaxTasks

\* No task was handed to runInPool, no goroutine of the pool exists.
NoTasks ==
    /\ tasks = [ k \in TaskIds |-> [ state |-> "new", runs |-> 0, by |-> 0 ] ]
    /\ workers = [ w \in WorkerIds |->
                     [ pc |-> "none", task |-> 0, armed |-> 0 ] ]

\* No snapshot captured, nothing registered.
Fresh ==
    /\ NoTasks
    /\ snaps = << newValueSnapshot, newValueSnapshot >>
    /\ captured = [ s \in UserSnaps |-> NoCapture ]
    /\ pool = [ s \in SnapIds |-> 0 ]
    /\ callbacks = <<>>
    /\ finalizers = <<>>
    /\ log = <<>>
    /\ out = NoOut

Start == heap \in Scenes /\ Fresh

\* The goroutines that use the pCache and the reflect.Types that are its
\* keys.  Every call of store passes a value of its own: the number of the
\* call, counted down.
Goroutines == 1..MaxGoroutines
Types == 1..MaxTypes

Idle ==
    [ pc |-> "idle", op |-> "none", key |-> 0, value |-> 0, stripe |-> 0,
      res |-> 0, ok |-> FALSE ]

\* newPCache(maxSizePerGoroutine): an empty sync.Pool, no stripe yet.
newPCache(maxSizePerGoroutine) ==
    /\ maxSize = maxSizePerGoroutine
    /\ stripes = <<>>
    /\ free = {}
    /\ gor = [ t \in Goroutines |-> Idle ]
    /\ stored = {}

\* A program that does not use the pCache.
Cold == newPCache(0)

Init == Start /\ opts \in CaptureOptionsSet /\ left = MaxOps /\ Cold

\* CaptureSnapshot passes Options{}.
InitWalk ==
    heap \in WalkScenes /\ Fresh /\ opts = [ Flags |-> 0 ]
    /\ left = MaxOps /\ Cold

InitMaps ==
    heap \in MapScenes /\ Fresh /\ opts = [ Flags |-> 0 ]
    /\ left = MaxMapOps /\ Cold

InitHandles ==
    heap = ChanRootScene /\ Fresh /\ opts \in OptionsSet /\ left = MaxOps
    /\ Cold

\* A program whose finalizers are about to run.
InitWorkers ==
    heap = CounterScene /\ Fresh /\ opts = [ Flags |-> 0 ] /\ left = 0 /\ Cold

InitEnsure == Start /\ opts \in OptionsSet /\ left = MaxOps /\ Cold

InitApi == Start /\ opts \in OptionsSet /\ left = MaxApiOps /\ Cold

InitReport == Start /\ opts \in OptionsSet /\ left = MaxReportOps /\ Cold

\* A program that uses the pCache only.
InitCache ==
    /\ Start
    /\ heap = CounterScene
    /\ opts = [ Flags |-> 0 ]
    /\ left = MaxCacheOps
    /\ \E m \in 0..MaxCacheSize : newPCache(m)

(***************************************************************************)
(* What a value is: the nodes reachable from it, without the state behind  *)
(* unsafe handles.                                                         *)
(***************************************************************************)
KidsOf(h, S) ==
    UNION { { h[n].kids[i] : i \in 1..Len(h[n].kids) } : n \in S }

RECURSIVE ReachFrom(_, _)
ReachFrom(h, S) ==
    LET N == S \cup KidsOf(h, S) IN IF N = S THEN S ELSE ReachFrom(h, N)

Reach(h, v) == IF v = 0 THEN {} ELSE ReachFrom(h, {v})

\* What a caller can pass as v: untyped nil (0), or a pointer, chan, func
\* or unsafe pointer of its own, one that no other value of the graph holds.
Roots(h) ==
    {0} \cup { n \in DOMAIN h : /\ h[n].kind \in { Kind.Ptr } \cup UnsafeKinds
                                /\ ~h[n].ca
                                /\ n \notin KidsOf(h, DOMAIN h) }

Visible(node) == [ node EXCEPT !.hid = 0 ]

SameValue(h1, h2, v) ==
    /\ Reach(h1, v) = Reach(h2, v)
    /\ \A n \in Reach(h1, v) : Visible(h1[n]) = Visible(h2[n])

\* The value holds only kinds the walker supports without opting in.
Supported(h, v) ==
    \A n \in Reach(h, v) : h[n].kind \notin UnsafeKinds

(***************************************************************************)
(* Mutations of the value by the program that owns it                      *)
(***************************************************************************)
Step == /\ left > 0
        /\ left' = left - 1
        /\ UNCHANGED opts
        /\ UNCHANGED cacheVars
        /\ UNCHANGED workerVars

Quiet(op) ==
    out' = [ NoOut EXCEPT !.op = op ]

MutateScalar(n, x) ==
    /\ Step
    /\ heap[n].kind \in ScalarKinds
    /\ x # heap[n].val
    /\ heap' = [ heap EXCEPT ![n].val = x ]
    /\ Quiet("MutateScalar")
    /\ UNCHANGED << snaps, captured, pool, callbacks, finalizers, log >>

MutatePointer(n, t) ==
    /\ Step
    /\ heap[n].kind = Kind.Ptr
    /\ LET kids == IF t = 0 THEN <<>> ELSE << t >> IN
       /\ kids # heap[n].kids
       /\ heap' = [ heap EXCEPT ![n].kids = kids ]
    /\ Quiet("MutatePointer")
    /\ UNCHANGED << snaps, captured, pool, callbacks, finalizers, log >>

MutateString(n, i) ==
    /\ Step
    /\ heap[n].kind = Kind.String
    /\ << StringPool[i].ptr, StringPool[i].str >> # << heap[n].ptr, heap[n].str >>
    /\ heap' = [ heap EXCEPT ![n].ptr = StringPool[i].ptr,
                             ![n].str = StringPool[i].str ]
    /\ Quiet("MutateString")
    /\ UNCHANGED << snaps, captured, pool, callbacks, finalizers, log >>

\* Reassigning an unsafe pointer, func or chan variable.
MutateHandle(n, a) ==
    /\ Step
    /\ heap[n].kind \in UnsafeKinds
    /\ a # heap[n].ptr
    /\ heap' = [ heap EXCEPT ![n].ptr = a ]
    /\ Quiet("MutateHandle")
    /\ UNCHANGED << snaps, captured, pool, callbacks, finalizers, log >>

\* Writing through an unsafe pointer, to a variable a closure captured, or
\* sending on / closing a channel.
MutateBehind(n) ==
    /\ Step
    /\ heap[n].kind \in UnsafeKinds
    /\ heap' = [ heap EXCEPT ![n].hid = 1 - @ ]
    /\ Quiet("MutateBehind")
    /\ UNCHANGED << snaps, captured, pool, callbacks, finalizers, log >>

(***************************************************************************)
(* The caller's snapshots: CaptureSnapshot(WithOptions), Reset,            *)
(* CheckImmutabilityAgainst                                                *)
(***************************************************************************)
\* The destination of a capture held an entry the capture did not write.
Stale(before, after) ==
    \E k \in DOMAIN before.checksums :
        \/ k \notin DOMAIN after.checksums
        \/ before.checksums[k] # after.checksums[k]

NewTraversal(snapshot) ==
    [ cs |-> snapshot.checksums, err |-> "none", trail |-> <<>> ]

\* initValueSnapshot followed by captureChecksumMap on reflect.ValueOf(v):
\* the snapshot as the traversal leaves it (also when it panics half way)
\* and the traversal state.
Traversed(fresh, st) ==
    [ snapshot |-> [ fresh EXCEPT !.checksums = st.cs ], st |-> st ]

Walk(h, ord, options, fresh, v) ==
    Traversed(fresh,
              captureChecksumMap(h, ord, options, NewTraversal(fresh), v, 1))

Traverse(h, ord, options, dst, v, line) ==
    Walk(h, ord, options, initValueSnapshot(dst, options, line), v)

CaptureSnapshotWithOptions(v, dst, ord) ==
    /\ Step
    /\ \E t \in { Traverse(heap, ord, opts, snaps[dst], v,
                           CallerLine.Capture) } :
       /\ snaps' = [ snaps EXCEPT ![dst] = t.snapshot ]
       /\ captured' = [ captured EXCEPT
                          ![dst] = [ h |-> heap, v |-> v, err |-> t.st.err,
                                     trail |-> t.st.trail ] ]
       /\ out' = [ NoOut EXCEPT !.op = "CaptureSnapshot", !.v = v, !.a = dst,
                                !.err = t.st.err,
                                !.panicked = (t.st.err # "none"),
                                !.trail = t.st.trail,
                                !.stale = Stale(snaps[dst], t.snapshot) ]
    /\ UNCHANGED << heap, pool, callbacks, finalizers, log >>

ResetSnapshot(dst) ==
    /\ Step
    /\ snaps' = [ snaps EXCEPT ![dst] = Reset(@) ]
    /\ captured' = [ captured EXCEPT ![dst] = NoCapture ]
    /\ out' = [ NoOut EXCEPT !.op = "Reset", !.a = dst ]
    /\ UNCHANGED << heap, pool, callbacks, finalizers, log >>

Check(a, b) ==
    /\ Step
    /\ \E r \in { CheckImmutabilityAgainst(snaps[a], snaps[b]) } :
       out' = [ NoOut EXCEPT !.op = "Check", !.a = a, !.b = b, !.err = r.err,
                             !.panicked = r.panic, !.msg = r.msg ]
    /\ UNCHANGED << heap, snaps, captured, pool, callbacks, finalizers, log >>

(***************************************************************************)
(* tempSnapshotsPool.  Get hands out any pooled snapshot, or a new one     *)
(* (g = 0); Put adds the snapshot once more.                               *)
(***************************************************************************)
GetChoices ==
    { s \in 1..Len(snaps) : pool[s] > 0 }
        \cup (IF Len(snaps) < MaxSnaps THEN {0} ELSE {})

GetId(g) == IF g = 0 THEN Len(snaps) + 1 ELSE g

GetSnaps(g) == IF g = 0 THEN Append(snaps, newValueSnapshot) ELSE snaps

GetPool(g) == IF g = 0 THEN pool ELSE [ pool EXCEPT ![g] = @ - 1 ]

PoolPut(p, s) == [ p EXCEPT ![s] = @ + 1 ]

LogEntries(events) == SelectSeq(events, LAMBDA e : e # "panic")

(***************************************************************************)
(* ensureImmutability and checkImmutabilityOnFinalization: the capture of  *)
(* the original snapshot.                                                  *)
(***************************************************************************)
\* The snapshot Get returned, after the traversal t captured into it.
Original(g, t) ==
    [ snaps |-> [ GetSnaps(g) EXCEPT ![GetId(g)] = t.snapshot ],
      pool |-> GetPool(g), err |-> t.st.err, id |-> GetId(g),
      trail |-> t.st.trail,
      stale |-> Stale(GetSnaps(g)[GetId(g)], t.snapshot) ]

\* The same without the nil check.
CaptureOriginal_NoNilCheck(v, ord, g, line) ==
    Original(g, Traverse(heap, ord, opts, GetSnaps(g)[GetId(g)], v, line))

\* The first half of both: nil check, Get, initValueSnapshot,
\* captureChecksumMap.  A panic leaves the snapshot out of the pool.
CaptureOriginal(v, ord, g, line) ==
    IF v = 0
    THEN [ snaps |-> snaps, pool |-> pool, err |-> "UnsupportedType",
           id |-> 0, trail |-> <<>>, stale |-> FALSE ]
    ELSE Original(g, Traverse(heap, ord, opts, GetSnaps(g)[GetId(g)], v,
                              line))

\* The function both run later: Get a new snapshot, defer the two Puts,
\* capture, compare with the original snapshot, report.
Reported(c, g, t, after, r, events) ==
    [ snaps |-> after,
      pool |-> PoolPut(PoolPut(GetPool(g), c.originalSnapshot), GetId(g)),
      err |-> IF t.st.err # "none" THEN t.st.err ELSE r.err,
      events |-> IF t.st.err = "none" /\ r.err = "MutationDetected"
                 THEN events ELSE <<>>,
      panicked |-> \/ t.st.err # "none"
                   \/ r.panic
                   \/ /\ r.err = "MutationDetected"
                      /\ \E i \in 1..Len(events) : events[i] = "panic",
      msg |-> IF t.st.err = "none" THEN r.msg ELSE <<>>,
      trail |-> t.st.trail,
      new |-> GetId(g),
      stale |-> Stale(GetSnaps(g)[GetId(g)], t.snapshot) ]

Compared(c, g, t, after) ==
    Reported(c, g, t, after,
             CheckImmutabilityAgainst(after[c.originalSnapshot],
                                      after[GetId(g)]),
             reportError(c.options))

Recaptured(c, g, t) ==
    Compared(c, g, t, [ GetSnaps(g) EXCEPT ![GetId(g)] = t.snapshot ])

Recheck(c, ord, g, line) ==
    Recaptured(c, g, Traverse(heap, ord, c.options, GetSnaps(g)[GetId(g)],
                              c.v, line))

EnsureImmutabilityWithOptions(v, ord, g) ==
    /\ Step
    /\ Len(callbacks) < MaxCallbacks
    /\ \E c \in { CaptureOriginal(v, ord, g, CallerLine.Ensure) } :
       /\ snaps' = c.snaps
       /\ pool' = c.pool
       /\ callbacks' =
             IF c.err = "none"
             THEN Append(callbacks, [ v |-> v, options |-> opts,
                                      originalSnapshot |-> c.id, h0 |-> heap,
                                      fp0 |-> c.snaps[c.id].checksums ])
             ELSE callbacks
       /\ out' = [ NoOut EXCEPT !.op = "EnsureImmutability", !.v = v,
                                !.err = c.err, !.panicked = (c.err # "none"),
                                !.trail = c.trail,
                                !.a = c.id, !.stale = c.stale ]
    /\ UNCHANGED << heap, captured, finalizers, log >>

\* A call of the function EnsureImmutability returned.
InvokeCallback(i, ord, g) ==
    /\ Step
    /\ \E c \in { callbacks[i] },
          r \in { Recheck(callbacks[i], ord, g, CallerLine.Callback) } :
           /\ snaps' = r.snaps
           /\ pool' = r.pool
           /\ log' = log \o LogEntries(r.events)
           /\ out' = [ NoOut EXCEPT !.op = "Callback", !.v = c.v, !.err = r.err,
                                    !.panicked = r.panicked,
                                    !.events = r.events, !.msg = r.msg,
                                    !.trail = r.trail,
                                    !.a = c.originalSnapshot, !.b = r.new,
                                    !.cb = i, !.stale = r.stale,
                                    !.mutated = ~SameValue(c.h0, heap, c.v) ]
    /\ UNCHANGED << heap, captured, callbacks, finalizers >>

\* runtime.SetFinalizer accepts one finalizer per object.
CheckImmutabilityOnFinalizationWithOptions(v, ord, g) ==
    /\ Step
    /\ Len(finalizers) < MaxFinalizers
    /\ \A i \in 1..Len(finalizers) : finalizers[i].v # v
    /\ \E c \in { CaptureOriginal(v, ord, g, CallerLine.Register) } :
       /\ snaps' = c.snaps
       /\ pool' = c.pool
       /\ finalizers' =
             IF c.err = "none"
             THEN Append(finalizers, [ v |-> v, options |-> opts,
                                       originalSnapshot |-> c.id, h0 |-> heap,
                                       fp0 |-> c.snaps[c.id].checksums,
                                       ran |-> FALSE ])
             ELSE finalizers
       /\ out' = [ NoOut EXCEPT !.op = "CheckImmutabilityOnFinalization",
                                !.v = v, !.err = c.err,
                                !.panicked = (c.err # "none"),
                                !.trail = c.trail,
                                !.a = c.id, !.stale = c.stale ]
    /\ UNCHANGED << heap, captured, callbacks, log >>

\* The finalizer's task, run once when the object is reclaimed.
Finalize(i, ord, g) ==
    /\ Step
    /\ ~finalizers[i].ran
    /\ \E c \in { finalizers[i] },
          r \in { Recheck(finalizers[i], ord, g, CallerLine.Finalizer) } :
           /\ snaps' = r.snaps
           /\ pool' = r.pool
           /\ log' = log \o LogEntries(r.events)
           /\ out' = [ NoOut EXCEPT !.op = "Finalizer", !.v = c.v, !.err = r.err,
                                    !.panicked = r.panicked,
                                    !.events = r.events, !.msg = r.msg,
                                    !.trail = r.trail,
                                    !.a = c.originalSnapshot, !.b = r.new,
                                    !.cb = i, !.stale = r.stale,
                                    !.mutated = ~SameValue(c.h0, heap, c.v) ]
    /\ finalizers' = [ finalizers EXCEPT ![i].ran = TRUE ]
    /\ UNCHANGED << heap, captured, callbacks >>

(***************************************************************************)
(* The race-gated functions.  The build without the race and immcheck      *)
(* tags (immcheck_norace.go) returns noop and registers nothing; the build *)
(* with one of the tags calls ensureImmutability and                       *)
(* checkImmutabilityOnFinalization.                                        *)
(***************************************************************************)
\* The build with the race or immcheck tag.
ImmcheckRaceEnabled_Tagged == TRUE

ImmcheckRaceEnabled == FALSE

\* func noop() {}: what a call of it logs and raises.
noop == <<>>

RaceEnsureImmutabilityWithOptions(v, ord, g) ==
    IF ImmcheckRaceEnabled
    THEN EnsureImmutabilityWithOptions(v, ord, g)
    ELSE /\ Step
         /\ Len(callbacks) < MaxCallbacks
         /\ callbacks' = Append(callbacks,
                                [ v |-> v, options |-> opts,
                                  originalSnapshot |-> 0, h0 |-> heap,
                                  fp0 |-> <<>> ])
         /\ out' = [ NoOut EXCEPT !.op = "RaceEnsureImmutability", !.v = v ]
         /\ UNCHANGED << heap, snaps, captured, pool, finalizers, log >>

\* A call of the function RaceEnsureImmutability returned.
InvokeRaceCallback(i, ord, g) ==
    IF callbacks[i].originalSnapshot # 0
    THEN InvokeCallback(i, ord, g)
    ELSE /\ Step
         /\ log' = log \o LogEntries(noop)
         /\ out' = [ NoOut EXCEPT
                       !.op = "RaceCallback", !.v = callbacks[i].v,
                       !.events = noop,
                       !.panicked = (\E e \in 1..Len(noop) :
                                        noop[e] = "panic"),
                       !.cb = i,
                       !.mutated = ~SameValue(callbacks[i].h0, heap,
                                              callbacks[i].v) ]
         /\ UNCHANGED << heap, snaps, captured, pool, callbacks,
                         finalizers >>

RaceCheckImmutabilityOnFinalizationWithOptions(v, ord, g) ==
    IF ImmcheckRaceEnabled
    THEN CheckImmutabilityOnFinalizationWithOptions(v, ord, g)
    ELSE /\ Step
         /\ out' = [ NoOut EXCEPT
                       !.op = "RaceCheckImmutabilityOnFinalization",
                       !.v = v ]
         /\ UNCHANGED << heap, snaps, captured, pool, callbacks,
                         finalizers, log >>

\* Assigning to an interface variable a value the runtime boxed elsewhere.
MutateInterface(n, t) ==
    /\ Step
    /\ heap[n].kind = Kind.Interface
    /\ << t >> # heap[n].kids
    /\ heap' = [ heap EXCEPT ![n].kids = << t >> ]
    /\ Quiet("MutateInterface")
    /\ UNCHANGED << snaps, captured, pool, callbacks, finalizers, log >>

\* m[k] = v for a key the map does not hold: the entry is the key node k
\* and the value node after it.
MapInsert(n, k) ==
    /\ Step
    /\ heap[n].kind = Kind.Map
    /\ ~IsNil(heap, n)
    /\ Len(heap[n].kids) \div 2 < MaxEntries
    /\ \A i \in 1..Len(heap[n].kids) : heap[n].kids[i] # k
    /\ heap' = [ heap EXCEPT ![n].kids = @ \o << k, k + 1 >> ]
    /\ Quiet("MapInsert")
    /\ UNCHANGED << snaps, captured, pool, callbacks, finalizers, log >>

\* delete(m, k) for the key of the i-th entry.
MapDelete(n, i) ==
    /\ Step
    /\ heap[n].kind = Kind.Map
    /\ i \in 1..(Len(heap[n].kids) \div 2)
    /\ heap' = [ heap EXCEPT ![n].kids =
                   SubSeq(@, 1, 2 * i - 2) \o SubSeq(@, 2 * i + 1, Len(@)) ]
    /\ Quiet("MapDelete")
    /\ UNCHANGED << snaps, captured, pool, callbacks, finalizers, log >>

Mutate ==
    \E n \in DOMAIN heap :
        \/ \E x \in Vals : MutateScalar(n, x)
        \/ \E t \in heap[n].alts : MutatePointer(n, t)
        \/ \E i \in heap[n].alts : MutateString(n, i)
        \/ \E a \in heap[n].alts : MutateHandle(n, a)
        \/ MutateBehind(n)

(***************************************************************************)
(* pCache: a cache of per-type data striped over a sync.Pool.  load and    *)
(* store take a stripe out of the pool, use its map and put it back.       *)
(***************************************************************************)
Without(cache, k) == [ y \in DOMAIN cache \ {k} |-> cache[y] ]

\* A lookup that answers with whatever the stripe holds.
load_AnyKey(cache, key) ==
    IF DOMAIN cache # {}
    THEN [ value |-> cache[CHOOSE k \in DOMAIN cache : TRUE], ok |-> TRUE ]
    ELSE [ value |-> 0, ok |-> FALSE ]

\* pCache.load on the stripe it got: value, ok := stripe.cache[key]
load(cache, key) ==
    IF key \in DOMAIN cache
    THEN [ value |-> cache[key], ok |-> TRUE ]
    ELSE [ value |-> 0, ok |-> FALSE ]

\* A store that never evicts.
store_NoEviction(size, cache, key, value) ==
    { [ cache |-> Put(cache, key, value), evicted |-> 0 ] }

\* pCache.store on the stripe it got: the assignment, then, when the map
\* is longer than maxSize, the deletion of the first key a range over the
\* map yields (any key).  The outcomes: the map left and the key deleted.
store(size, cache, key, value) ==
    LET written == Put(cache, key, value) IN
    IF Cardinality(DOMAIN written) <= size
    THEN { [ cache |-> written, evicted |-> 0 ] }
    ELSE { [ cache |-> Without(written, k), evicted |-> k ] :
             k \in DOMAIN written }

\* p.pool.Get(): a stripe of the pool, removed from it, or the stripe New
\* builds (s = 0), which gets the first unused name.
FreshStripe == CHOOSE s \in 1..MaxStripes :
                   /\ s \notin DOMAIN stripes
                   /\ \A r \in 1..(s - 1) : r \in DOMAIN stripes

\* Idle goroutines are alike: the first of them makes the next call.
FirstIdle(t) ==
    /\ gor[t].pc = "idle"
    /\ \A u \in 1..(t - 1) : gor[u].pc # "idle"

\* The first statement of load and of store: goroutine t, which makes the
\* call, takes stripe s out of the pool.
PoolGet(t, call, s) ==
    /\ left > 0
    /\ left' = left - 1
    /\ FirstIdle(t)
    /\ IF s = 0
       THEN /\ DOMAIN stripes # 1..MaxStripes
            /\ stripes' = Put(stripes, FreshStripe, <<>>)
            /\ gor' = [ gor EXCEPT ![t] = [ call EXCEPT
                                              !.pc = "use",
                                              !.stripe = FreshStripe ] ]
            /\ UNCHANGED free
       ELSE /\ s \in free
            /\ free' = free \ {s}
            /\ gor' = [ gor EXCEPT ![t] = [ call EXCEPT !.pc = "use",
                                                        !.stripe = s ] ]
            /\ UNCHANGED stripes
    /\ UNCHANGED << heap, opts, snaps, captured, pool, callbacks, finalizers,
                    log, out, maxSize, stored, workerVars >>

\* A call of load begins.
BeginLoad(t, key, s) ==
    PoolGet(t, [ Idle EXCEPT !.op = "load", !.key = key ], s)

\* A call of store begins.
BeginStore(t, key, s) ==
    PoolGet(t, [ Idle EXCEPT !.op = "store", !.key = key, !.value = left ],
            s)

\* The body of load, between Get and the deferred Put.
LoadStripe(t) ==
    /\ gor[t].pc = "use"
    /\ gor[t].op = "load"
    /\ \E r \in { load(stripes[gor[t].stripe], gor[t].key) } :
          gor' = [ gor EXCEPT ![t].pc = "put", ![t].res = r.value,
                                 ![t].ok = r.ok ]
    /\ UNCHANGED << engineVars, workerVars, maxSize, stripes, free, stored >>

\* The body of store, between Get and the deferred Put.
StoreStripe(t) ==
    /\ gor[t].pc = "use"
    /\ gor[t].op = "store"
    /\ \E r \in store(maxSize, stripes[gor[t].stripe], gor[t].key,
                       gor[t].value) :
          /\ stripes' = [ stripes EXCEPT ![gor[t].stripe] = r.cache ]
          /\ gor' = [ gor EXCEPT ![t].pc = "put", ![t].res = r.evicted ]
    /\ stored' = stored \cup { << gor[t].key, gor[t].value >> }
    /\ UNCHANGED << engineVars, workerVars, maxSize, free >>

\* defer p.pool.Put(stripe), and the return of load or store.
PoolPutStripe(t) ==
    /\ gor[t].pc = "put"
    /\ free' = free \cup { gor[t].stripe }
    /\ gor' = [ gor EXCEPT ![t] = Idle ]
    /\ UNCHANGED << engineVars, workerVars, maxSize, stripes, stored >>

\* The garbage collector empties the sync.Pool: the stripes in it are gone.
PoolClean ==
    /\ free # {}
    /\ free' = {}
    /\ stripes' = [ s \in DOMAIN stripes \ free |-> stripes[s] ]
    /\ UNCHANGED << engineVars, workerVars, maxSize, gor, stored >>

NextCache ==
    \/ \E t \in Goroutines, key \in Types, s \in 0..MaxStripes :
          BeginLoad(t, key, s)
    \/ \E t \in Goroutines, key \in Types, s \in 0..MaxStripes :
          BeginStore(t, key, s)
    \/ \E t \in Goroutines : LoadStripe(t)
    \/ \E t \in Goroutines : StoreStripe(t)
    \/ \E t \in Goroutines : PoolPutStripe(t)
    \/ PoolClean

(***************************************************************************)
(* runInPool: the goroutines that run the finalizers' tasks.  taskQueue    *)
(* is unbuffered: a send succeeds when a goroutine is blocked receiving.   *)
(***************************************************************************)
\* The goroutines blocked in the select of the loop.
Receivers == { w \in WorkerIds : workers[w].pc = "select" }

\* go func(): the goroutine that is started is one that did not exist.
Started(w) ==
    /\ workers[w].pc = "none"
    /\ \A u \in WorkerIds : workers[u].pc = "none" => w <= u

\* A select whose default case does nothing: the task is dropped when no
\* goroutine is receiving.
runInPool_SendOnly(k) ==
    /\ tasks[k].state = "new"
    /\ IF Receivers # {}
       THEN \E w \in Receivers :
               workers' = [ workers EXCEPT ![w].pc = "t", ![w].task = k ]
       ELSE UNCHANGED workers
    /\ tasks' = [ tasks EXCEPT ![k].state = "held" ]
    /\ UNCHANGED << engineVars, cacheVars >>

\* runInPool(task), from the select to the return: the task goes to a
\* goroutine that is receiving, else to a goroutine started for it.
runInPool(k) ==
    /\ tasks[k].state = "new"
    /\ IF Receivers # {}
       THEN \E w \in Receivers :
               workers' = [ workers EXCEPT ![w].pc = "t", ![w].task = k ]
       ELSE \E w \in WorkerIds :
               /\ Started(w)
               /\ workers' = [ workers EXCEPT ![w].pc = "task",
                                              ![w].task = k ]
    /\ tasks' = [ tasks EXCEPT ![k].state = "held" ]
    /\ UNCHANGED << engineVars, cacheVars >>

\* task() in a new goroutine, then time.NewTicker; t() in the loop, then
\* cleanupTicker.Reset.  The goroutine is back in the select.
RunTask(w) ==
    /\ workers[w].pc \in { "task", "t" }
    /\ tasks' = [ tasks EXCEPT ![workers[w].task] =
                    [ state |-> "done", runs |-> @.runs + 1, by |-> w ] ]
    /\ workers' = [ workers EXCEPT ![w] =
                      [ pc |-> "select", task |-> 0, armed |-> @.armed + 1 ] ]
    /\ UNCHANGED << engineVars, cacheVars >>

\* A ticker that stops for good once it has been reset.
CleanupTick_OnlyFirst(w) ==
    /\ workers[w].pc = "select"
    /\ workers[w].armed <= 1
    /\ workers' = [ workers EXCEPT ![w].pc = "exited" ]
    /\ UNCHANGED << engineVars, cacheVars, tasks >>

\* case <-cleanupTicker.C: return.  The select may take it whenever the
\* goroutine is blocked in it.
CleanupTick(w) ==
    /\ workers[w].pc = "select"
    /\ workers' = [ workers EXCEPT ![w].pc = "exited" ]
    /\ UNCHANGED << engineVars, cacheVars, tasks >>

NextWorkers ==
    \/ \E k \in TaskIds : runInPool(k)
    \/ \E w \in WorkerIds : RunTask(w)
    \/ \E w \in WorkerIds : CleanupTick(w)

\* The caller's own snapshots.
NextManual ==
    \/ Mutate
    \/ \E v \in Roots(heap), dst \in UserSnaps, ord \in Orders(heap) :
          CaptureSnapshotWithOptions(v, dst, ord)
    \/ \E dst \in UserSnaps : ResetSnapshot(dst)
    \/ \E a, b \in UserSnaps : Check(a, b)

\* The callback and the finalizer, on pooled snapshots.
NextEnsure ==
    \/ Mutate
    \/ \E v \in Roots(heap), ord \in Orders(heap), g \in GetChoices :
          EnsureImmutabilityWithOptions(v, ord, g)
    \/ \E i \in DOMAIN callbacks, ord \in Orders(heap), g \in GetChoices :
          InvokeCallback(i, ord, g)
    \/ \E v \in Roots(heap), ord \in Orders(heap), g \in GetChoices :
          CheckImmutabilityOnFinalizationWithOptions(v, ord, g)
    \/ \E i \in DOMAIN finalizers, ord \in Orders(heap), g \in GetChoices :
          Finalize(i, ord, g)

\* Every operation of the library, for short runs.
NextApi == NextManual \/ NextEnsure

Spec == Init /\ [][NextManual]_vars

\* The caller's own snapshots of values built from interfaces, aliased
\* pointers and nested structs.
NextWalk ==
    \/ NextManual
    \/ \E n \in DOMAIN heap : \E t \in heap[n].alts : MutateInterface(n, t)

SpecWalk == InitWalk /\ [][NextWalk]_vars

\* The caller's own snapshots of maps that grow and shrink.
NextMaps ==
    \/ NextManual
    \/ \E n \in DOMAIN heap : \E k \in heap[n].alts : MapInsert(n, k)
    \/ \E n \in DOMAIN heap, i \in 1..MaxEntries : MapDelete(n, i)

SpecMaps == InitMaps /\ [][NextMaps]_vars

SpecEnsure == InitEnsure /\ [][NextEnsure]_vars

SpecApi == InitApi /\ [][NextApi]_vars

\* Every operation of the library on a program that also passes a chan.
SpecHandles == InitHandles /\ [][NextApi]_vars

\* The finalizers' tasks and the goroutines of the pool.
SpecWorkers == InitWorkers /\ [][NextWorkers]_vars

\* The same when every task returns and time passes: a goroutine that
\* holds a task runs it to its end, and the ticker of a goroutine that
\* stays blocked in the select fires.
SpecWorkersLive ==
    /\ SpecWorkers
    /\ \A w \in WorkerIds : WF_vars(RunTask(w)) /\ WF_vars(CleanupTick(w))

\* One callback or finalizer from its creation to its first report.
SpecReport == InitReport /\ [][NextEnsure]_vars

\* A program that uses the race-gated functions only.  The objects it
\* registered are reclaimed with the finalizers that were set on them.
NextRace ==
    \/ Mutate
    \/ \E v \in Roots(heap), ord \in Orders(heap), g \in GetChoices :
          RaceEnsureImmutabilityWithOptions(v, ord, g)
    \/ \E i \in DOMAIN callbacks, ord \in Orders(heap), g \in GetChoices :
          InvokeRaceCallback(i, ord, g)
    \/ \E v \in Roots(heap), ord \in Orders(heap), g \in GetChoices :
          RaceCheckImmutabilityOnFinalizationWithOptions(v, ord, g)

SpecRace == InitEnsure /\ [][NextRace]_vars

SpecCache == InitCache /\ [][NextCache]_vars

(***************************************************************************)
(* Properties                                                              *)
(***************************************************************************)
\* The contents a capture of value v hashes, in heap h.
Spans(h, v) ==
    { IF h[n].kind \in { Kind.Array, Kind.Slice, Kind.String }
      THEN convertSliceBasedTypeToByteSlice(h, n)
      ELSE convertValueTypeToBytesSlice(h, n) : n \in Reach(h, v) }

\* The model's hash separates all contents the caller's snapshots and the
\* present value hold, so no verdict rests on two contents hashing alike.
HashSeparates ==
    LET all == UNION { Spans(heap, v) : v \in Roots(heap) }
                 \cup UNION { Spans(captured[s].h, captured[s].v) :
                                 s \in UserSnaps }
    IN  \A x, y \in all : hashSum(x) = hashSum(y) => x = y

\* C1 (as claimed): whenever two snapshots of the same value of supported
\* kinds were captured and the value differs between the two captures,
\* CheckImmutabilityAgainst reports MutationDetectedError.
C1_MutationSensitivity ==
    ( /\ out.op = "Check"
      /\ captured[out.a].err = "none"
      /\ captured[out.b].err = "none"
      /\ captured[out.a].v = captured[out.b].v
      /\ Supported(captured[out.a].h, captured[out.a].v)
      /\ Supported(captured[out.b].h, captured[out.b].v)
      /\ ~SameValue(captured[out.a].h, captured[out.b].h, captured[out.a].v) )
    => out.err = "MutationDetected"

\* C2 (as claimed): every invocation of the function EnsureImmutability
\* returned compares the re-captured state with the fingerprint captured
\* when EnsureImmutability was called, and reports a mismatch iff the two
\* differ.
C2_CallbackReuse ==
    out.op = "Callback" =>
        ( out.err = "MutationDetected"
            <=> ~checksumEquals(snaps[out.b].checksums,
                                callbacks[out.cb].fp0) )

\* C3 (as claimed): with no mutation between two captures of a value, the
\* snapshots compare as equal: CheckImmutabilityAgainst returns nil, and the
\* callback of EnsureImmutability neither panics nor logs.
C3_Idempotence ==
    /\ ( /\ out.op = "Check"
         /\ captured[out.a].err = "none"
         /\ captured[out.b].err = "none"
         /\ captured[out.a].v = captured[out.b].v
         /\ SameValue(captured[out.a].h, captured[out.b].h, captured[out.a].v) )
       => (out.err = "none" /\ ~out.panicked)
    /\ (out.op = "Callback" /\ ~out.mutated)
       => (~out.panicked /\ out.events = <<>>)

\* C4 (as claimed): the traversal of a capture terminates on every finite
\* value graph, cycles through pointers, interfaces, slices or maps
\* included: no capture exhausts the stack.
C4_CycleTermination ==
    out.op \in { "CaptureSnapshot", "EnsureImmutability",
                 "CheckImmutabilityOnFinalization", "Callback", "Finalizer" }
        => out.err # "StackOverflow"

\* C5: CheckImmutabilityAgainst panics with InvalidSnapshotStateError
\* whenever the receiver's or the argument's fingerprint is empty (never
\* captured, or Reset since), whatever the other snapshot holds.
C5_InvalidStateGuard ==
    ( /\ out.op = "Check"
      /\ \/ snaps[out.a].checksums = <<>>
         \/ snaps[out.b].checksums = <<>>
         \/ captured[out.a].err = "never"
         \/ captured[out.b].err = "never" )
    => (out.err = "InvalidSnapshotState" /\ out.panicked)

\* A check of a captured snapshot against an empty one was refused.
C5_Witness ==
    /\ out.op = "Check"
    /\ snaps[out.a].checksums # <<>>
    /\ snaps[out.b].checksums = <<>>
    /\ out.err = "InvalidSnapshotState"

\* C6: for two non-empty snapshots CheckImmutabilityAgainst returns nil iff
\* the two fingerprints hold the same keys with the same digests, and an
\* error wrapping MutationDetectedError in every other case.
C6_ExactEquality ==
    ( /\ out.op = "Check"
      /\ snaps[out.a].checksums # <<>>
      /\ snaps[out.b].checksums # <<>> )
    => /\ out.err \in { "none", "MutationDetected" }
       /\ ~out.panicked
       /\ out.err = "none" <=> snaps[out.a].checksums = snaps[out.b].checksums

\* A new fingerprint that is a strict part of the original was reported as
\* a mutation.
C6_Witness ==
    /\ out.op = "Check"
    /\ out.err = "MutationDetected"
    /\ snaps[out.b].checksums # <<>>
    /\ DOMAIN snaps[out.b].checksums # DOMAIN snaps[out.a].checksums
    /\ \A k \in DOMAIN snaps[out.b].checksums :
          /\ k \in DOMAIN snaps[out.a].checksums
          /\ snaps[out.a].checksums[k] = snaps[out.b].checksums[k]

\* The operations that capture the value they are given.
CapturingOps ==
    { "CaptureSnapshot", "EnsureImmutability",
      "CheckImmutabilityOnFinalization" }

\* The program left the flag out of the options it passes.
Unset(flag) == (opts.Flags \div flag) % 2 = 0

\* C7: without AllowInherentlyUnsafeTypes a capture of a value that holds
\* an unsafe pointer, a func or a chan anywhere panics with
\* UnsupportedTypeError in the capturing call, and no callback and no
\* finalizer exists for such a value.
C7_UnsafeRejected ==
    /\ ( /\ out.op \in CapturingOps
         /\ out.v # 0
         /\ ~Supported(heap, out.v)
         /\ Unset(AllowInherentlyUnsafeTypes) )
       => (out.err = "UnsupportedType" /\ out.panicked)
    /\ \A i \in DOMAIN callbacks :
          \/ Supported(callbacks[i].h0, callbacks[i].v)
          \/ ~Unset(AllowInherentlyUnsafeTypes)
    /\ \A i \in DOMAIN finalizers :
          \/ Supported(finalizers[i].h0, finalizers[i].v)
          \/ ~Unset(AllowInherentlyUnsafeTypes)

\* EnsureImmutability met a func below the root and failed, leaving no
\* callback.
C7_Witness ==
    /\ out.op = "EnsureImmutability"
    /\ out.err = "UnsupportedType"
    /\ Len(out.trail) > 2
    /\ heap[out.trail[Len(out.trail)]].kind = Kind.Func
    /\ Unset(AllowInherentlyUnsafeTypes)
    /\ callbacks = <<>>

\* C8 (as claimed): with AllowInherentlyUnsafeTypes set a capture of a value
\* holding unsafe handles succeeds; a mutation purely behind a handle yields
\* no mismatch, and a handle reassigned to a different address yields a
\* mismatch.
C8_UnsafeOptIn ==
    /\ ( /\ out.op \in CapturingOps
         /\ out.v # 0
         /\ HasFlag(opts, AllowInherentlyUnsafeTypes) )
       => out.err # "UnsupportedType"
    /\ ( /\ out.op = "Check"
         /\ HasFlag(opts, AllowInherentlyUnsafeTypes)
         /\ captured[out.a].err = "none"
         /\ captured[out.b].err = "none"
         /\ captured[out.a].v = captured[out.b].v )
       => LET ha == captured[out.a].h
              hb == captured[out.b].h
              v == captured[out.a].v
          IN  /\ (~Supported(ha, v) /\ SameValue(ha, hb, v))
                    => out.err = "none"
              /\ (\E n \in Reach(ha, v) : /\ ha[n].kind \in UnsafeKinds
                                          /\ ha[n].ptr # hb[n].ptr)
                    => out.err = "MutationDetected"

\* C9: EnsureImmutability(nil) and CheckImmutabilityOnFinalization(nil)
\* panic with UnsupportedTypeError before a snapshot is taken from the pool,
\* no callback and no finalizer exists for nil, and a capture of nil (a
\* value of Invalid kind) panics with UnsupportedTypeError, whatever the
\* options.
C9_NilRoot ==
    /\ (out.op \in CapturingOps /\ out.v = 0)
       => (out.err = "UnsupportedType" /\ out.panicked)
    /\ ( /\ out.op \in { "EnsureImmutability",
                          "CheckImmutabilityOnFinalization" }
         /\ out.v = 0 )
       => out.a = 0
    /\ \A i \in DOMAIN callbacks : callbacks[i].v # 0
    /\ \A i \in DOMAIN finalizers : finalizers[i].v # 0

\* CheckImmutabilityOnFinalization(nil) failed with every flag set.
C9_Witness ==
    /\ out.op = "CheckImmutabilityOnFinalization"
    /\ out.v = 0
    /\ out.err = "UnsupportedType"
    /\ opts.Flags = 15
    /\ finalizers = <<>>

\* C10: when the comparison of a callback or of a finalizer detects a
\* mismatch, a log entry is written iff SkipLoggingOnMutation is not set
\* and a panic is raised iff SkipPanicOnDetectedMutation is not set, the log
\* entry first; with both set nothing happens; the other two flags make no
\* difference.
C10_ReportingPolicy ==
    (out.op \in { "Callback", "Finalizer" } /\ out.err = "MutationDetected")
    => LET logs == ~HasFlag(opts, SkipLoggingOnMutation)
           panics == ~HasFlag(opts, SkipPanicOnDetectedMutation)
       IN  /\ out.events = (IF logs THEN << "log" >> ELSE <<>>)
                              \o (IF panics THEN << "panic" >> ELSE <<>>)
           /\ out.panicked <=> panics
           /\ logs => (log # <<>> /\ log[Len(log)] = "log")

\* A finalizer detected a mutation, logged it and did not panic, with the
\* two other flags set.
C10_Witness ==
    /\ out.op = "Finalizer"
    /\ out.err = "MutationDetected"
    /\ opts.Flags = SkipOriginCapturing + AllowInherentlyUnsafeTypes
                        + SkipPanicOnDetectedMutation
    /\ out.events = << "log" >>
    /\ ~out.panicked

\* C11 (as claimed): the check a finalizer makes when its object is
\* reclaimed runs once, compares the object with the fingerprint captured at
\* registration, reports a mutation made in between through reportError,
\* and neither logs nor panics when the object was not mutated.
C11_FinalizationCheck ==
    out.op = "Finalizer" =>
        /\ finalizers[out.cb].ran
        /\ out.mutated =>
              /\ out.err = "MutationDetected"
              /\ out.events = reportError(finalizers[out.cb].options)
        /\ ~out.mutated => (out.events = <<>> /\ ~out.panicked)

\* The value holds a map with entries.
HoldsMap(h, v) ==
    \E n \in Reach(h, v) : h[n].kind = Kind.Map /\ h[n].kids # <<>>

CapturedInto ==
    IF out.op \in { "Callback", "Finalizer" } THEN out.b ELSE out.a

CapturedAt ==
    CASE out.op = "CaptureSnapshot" -> CallerLine.Capture
      [] out.op = "Callback" -> CallerLine.Callback
      [] out.op = "Finalizer" -> CallerLine.Finalizer
      [] out.op = "CheckImmutabilityOnFinalization" -> CallerLine.Register
      [] OTHER -> CallerLine.Ensure

C14_ExclusiveOwnership ==
    /\ \A s \in 1..Len(snaps) : pool[s] <= 1
    /\ \A i \in DOMAIN callbacks : pool[callbacks[i].originalSnapshot] = 0
    /\ \A i \in DOMAIN finalizers :
          finalizers[i].ran \/ pool[finalizers[i].originalSnapshot] = 0
    /\ out.op \in { "Callback", "Finalizer" } => out.a # out.b

\* The key under which captureChecksumMap stores its entry for value n.
EntryKey(h, n) ==
    LET valueKind == KindOf(h, n) IN
    CASE valueKind \in UnsafeKinds -> evalKey(Pointer(h, n), valueKind)
      [] valueKind \in { Kind.Ptr, Kind.Interface, Kind.Map } ->
            evalKey(pointerOfValue(h, n), valueKind)
      [] valueKind \in { Kind.Array, Kind.Slice, Kind.String } ->
            evalKey32(hashSum(convertSliceBasedTypeToByteSlice(h, n)),
                      valueKind)
      [] OTHER ->
            evalKey32(hashSum(convertValueTypeToBytesSlice(h, n)), valueKind)

\* What tells one visited value from another: its address and its kind.
Locator(h, n) == << pointerOfValue(h, n), KindOf(h, n) >>

\* C15 (as claimed): within one traversal two visited values of different
\* address, or of the same address and different kinds, are never stored
\* under the same fingerprint key.
C15_KeysDoNotCollide ==
    (out.op = "CaptureSnapshot" /\ out.err = "none")
    => \A i, j \in 1..Len(out.trail) :
          Locator(heap, out.trail[i]) # Locator(heap, out.trail[j])
              => EntryKey(heap, out.trail[i]) # EntryKey(heap, out.trail[j])

\* The scalars a capture visited.
VisitedScalars ==
    { out.trail[i] : i \in 1..Len(out.trail) }
        \cap { n \in DOMAIN heap : heap[n].kind \in ScalarKinds }

\* C20 (as claimed): the entry of a visited scalar is stored under the key
\* made of the scalar's address and kind and holds the hash of its bytes,
\* so two visited scalars of one kind at different addresses have two
\* entries, also when their contents are equal.
C20_ScalarKeyedByLocation ==
    (out.op = "CaptureSnapshot" /\ out.err = "none")
    => /\ \A n \in VisitedScalars :
             /\ EntryKey(heap, n)
                   = evalKey(pointerOfValue(heap, n), KindOf(heap, n))
             /\ snaps[out.a].checksums[EntryKey(heap, n)]
                   = hashSum(convertValueTypeToBytesSlice(heap, n))
       /\ \A m, n \in VisitedScalars :
             ( /\ heap[m].kind = heap[n].kind
               /\ heap[m].loc # heap[n].loc )
             => EntryKey(heap, m) # EntryKey(heap, n)

\* C16: in the build without the race and immcheck tags the function
\* RaceEnsureImmutability(WithOptions) returns never panics and never logs,
\* whatever was mutated, and RaceCheckImmutabilityOnFinalization
\* (WithOptions) sets no finalizer, takes no snapshot and writes no log
\* entry.
C16_RaceGatedNoop ==
    /\ ~out.panicked
    /\ out.events = <<>>
    /\ out.err = "none"
    /\ log = <<>>
    /\ finalizers = <<>>
    /\ Len(snaps) = Cardinality(UserSnaps)
    /\ \A s \in SnapIds : pool[s] = 0

\* The function RaceEnsureImmutability returned was called after the value
\* was mutated, and nothing happened.
C16_Witness ==
    /\ out.op = "RaceCallback"
    /\ out.mutated
    /\ ~out.panicked
    /\ log = <<>>
    /\ ~HasFlag(opts, SkipPanicOnDetectedMutation)
    /\ ~HasFlag(opts, SkipLoggingOnMutation)

\* The call sites the message of a mismatch has to name: where the
\* original snapshot was captured and where the mismatch was detected.
ExpectedOrigins ==
    CASE out.op = "Callback" ->
            << << "captured", CallerLine.Ensure >>,
               << "detected", CallerLine.Callback >> >>
      [] out.op = "Finalizer" ->
            << << "captured", CallerLine.Register >>,
               << "detected", CallerLine.Finalizer >> >>
      [] OTHER ->
            << << "captured", CallerLine.Capture >>,
               << "detected", CallerLine.Capture >> >>

\* C17 (as claimed): the message of a detected mismatch names the origin
\* of the original capture and the origin of the detecting capture when
\* origins are captured; with SkipOriginCapturing no snapshot records an
\* origin and the message names none.
C17_BothOrigins ==
    /\ out.err = "MutationDetected"
          => out.msg = IF HasFlag(opts, SkipOriginCapturing)
                       THEN <<>>
                       ELSE ExpectedOrigins
    /\ HasFlag(opts, SkipOriginCapturing)
          => \A s \in 1..Len(snaps) : ~HasOrigin(snaps[s])

\* The stripes goroutines hold, between Get and Put.
Holding(t) == gor[t].pc \in { "use", "put" }

\* C18: every stripe of a pCache created with maxSizePerGoroutine = M holds
\* at most M entries in every state, and a store that made its stripe
\* exceed M has deleted exactly one entry, which may be any entry, the one
\* just stored included.
C18_CapacityBound ==
    /\ \A s \in DOMAIN stripes : Cardinality(DOMAIN stripes[s]) <= maxSize
    /\ \A t \in Goroutines :
          (gor[t].op = "store" /\ gor[t].pc = "put" /\ gor[t].res # 0)
          => /\ Cardinality(DOMAIN stripes[gor[t].stripe]) = maxSize
             /\ gor[t].res \notin DOMAIN stripes[gor[t].stripe]

\* A store into a full stripe deleted the entry it had just written and
\* left the older entry.
C18_Witness ==
    \E t \in Goroutines :
        /\ gor[t].op = "store"
        /\ gor[t].pc = "put"
        /\ gor[t].res = gor[t].key
        /\ maxSize > 0
        /\ Cardinality(DOMAIN stripes[gor[t].stripe]) = maxSize

\* C19: a load of key k answers with a miss or with a value some store
\* wrote for k before, never with a value stored for another key; and a
\* stripe is held by one goroutine at most between its Get and its Put, and
\* is not in the pool meanwhile.
C19_BestEffortNeverWrong ==
    /\ \A t \in Goroutines :
          (gor[t].op = "load" /\ gor[t].pc = "put")
          => IF gor[t].ok
             THEN << gor[t].key, gor[t].res >> \in stored
             ELSE gor[t].res = 0
    /\ \A t, u \in Goroutines :
          (t # u /\ Holding(t) /\ Holding(u))
          => gor[t].stripe # gor[u].stripe
    /\ \A t \in Goroutines :
          Holding(t) => (gor[t].stripe \in DOMAIN stripes
                          /\ gor[t].stripe \notin free)

\* A load answered with an old value of its key: another stripe holds a
\* different, also stored, value for it.
C19_Witness ==
    \E t \in Goroutines, s \in DOMAIN stripes :
        /\ gor[t].op = "load"
        /\ gor[t].pc = "put"
        /\ gor[t].ok
        /\ s # gor[t].stripe
        /\ gor[t].key \in DOMAIN stripes[s]
        /\ stripes[s][gor[t].key] # gor[t].res

\* The non-nil pointers and interfaces a capture visited.
VisitedReferences ==
    { n \in { out.trail[i] : i \in 1..Len(out.trail) } :
        heap[n].kind \in { Kind.Ptr, Kind.Interface } /\ ~IsNil(heap, n) }

RECURSIVE Embedded(_, _)
Embedded(h, S) ==
    LET N == S \cup KidsOf(h, { m \in S : h[m].kind = Kind.Struct })
    IN  IF N = S THEN S ELSE Embedded(h, N)

\* The type of value n is built from scalar kinds and structs only.
ScalarsOnly(h, n) ==
    \A m \in Embedded(h, {n}) : h[m].kind \in ScalarKinds \cup { Kind.Struct }

Visited == { out.trail[i] : i \in 1..Len(out.trail) }

\* C22: in a capture that succeeds every visited struct, array, slice and
\* string has one entry, the hash of its whole byte span; a field or item
\* of it is walked exactly when its type is not primitive; so a struct of
\* scalars only, or a sequence of primitive items, adds that one entry and
\* nothing else, and the fingerprint holds one entry per visited value.
C22_WholeSpanShortcut ==
    (out.op = "CaptureSnapshot" /\ out.err = "none")
    => /\ \A n \in Visited :
             heap[n].kind \in { Kind.Struct, Kind.Array, Kind.Slice,
                                Kind.String }
             => /\ EntryKey(heap, n) \in DOMAIN snaps[out.a].checksums
                /\ snaps[out.a].checksums[EntryKey(heap, n)]
                      = hashSum(IF heap[n].kind = Kind.Struct
                                THEN convertValueTypeToBytesSlice(heap, n)
                                ELSE convertSliceBasedTypeToByteSlice(heap, n))
                /\ \A i \in 1..Len(heap[n].kids) :
                      (heap[n].kids[i] \in Visited)
                          <=> ~ScalarsOnly(heap, heap[n].kids[i])
       /\ DOMAIN snaps[out.a].checksums
             = { EntryKey(heap, n) : n \in Visited }

\* A capture walked a struct of scalars only, a struct with a field that is
\* not primitive, an array of scalars and a slice of structs with strings.
C22_Witness ==
    /\ out.op = "CaptureSnapshot" /\ out.err = "none"
    /\ \E n \in Visited :
          /\ heap[n].kind \in { Kind.Struct, Kind.Array, Kind.Slice }
          /\ heap[n].kids # <<>>
          /\ \A i \in 1..Len(heap[n].kids) : heap[n].kids[i] \notin Visited
    /\ \E n \in Visited :
          /\ heap[n].kind \in { Kind.Struct, Kind.Slice }
          /\ \E i, j \in 1..Len(heap[n].kids) :
                heap[n].kids[i] \in Visited /\ heap[n].kids[j] \notin Visited

\* C25: valueIsPrimitive is true exactly for the scalar kinds and for
\* structs whose fields are all, recursively, primitive; false for every
\* array, slice, string, map, pointer, interface, chan, func and unsafe
\* pointer and for a struct that holds one; and it is the same before and
\* after the program has changed the value, since the type is the same.
C25_TypeClassification ==
    /\ \A n \in DOMAIN heap :
          /\ valueIsPrimitive(heap, n) <=> ScalarsOnly(heap, n)
          /\ heap[n].kind \notin ScalarKinds \cup { Kind.Struct }
                => ~valueIsPrimitive(heap, n)
    /\ \A s \in UserSnaps :
          captured[s].h # <<>>
          => \A n \in DOMAIN heap :
                valueIsPrimitive(heap, n) <=> valueIsPrimitive(captured[s].h, n)

\* A capture walked a primitive struct that holds a struct, a struct that
\* is not primitive because of a string two structs down, and an array of
\* scalars; the program has changed the value since.
C25_Witness ==
    /\ out.op = "CaptureSnapshot" /\ out.err = "none"
    /\ \E n \in Visited :
          /\ heap[n].kind = Kind.Struct
          /\ \E m \in Embedded(heap, {n}) \ {n} :
                heap[m].kind = Kind.Struct /\ valueIsPrimitive(heap, m)
          /\ \E m \in Embedded(heap, {n}) :
                /\ heap[m].kind = Kind.Struct
                /\ ~valueIsPrimitive(heap, m)
                /\ \A i \in 1..Len(heap[m].kids) :
                      heap[heap[m].kids[i]].kind = Kind.Struct
          /\ \E m \in Embedded(heap, {n}) :
                /\ heap[m].kind = Kind.Array
                /\ \A i \in 1..Len(heap[m].kids) :
                      heap[heap[m].kids[i]].kind \in ScalarKinds
                /\ ~valueIsPrimitive(heap, m)
    /\ \E s \in UserSnaps : captured[s].h # <<>> /\ captured[s].h # heap

\* The two snapshots of the caller hold successful captures of one value.
BothCaptured ==
    /\ \A s \in UserSnaps : captured[s].err = "none"
    /\ captured[1].v = captured[2].v

\* The maps both captures reached, non-nil with the same header, that held
\* a different number of entries at the two captures.
Resized ==
    { n \in Reach(captured[1].h, captured[1].v)
              \cap Reach(captured[2].h, captured[2].v) :
        /\ captured[1].h[n].kind = Kind.Map
        /\ ~IsNil(captured[1].h, n) /\ ~IsNil(captured[2].h, n)
        /\ captured[1].h[n].ptr = captured[2].h[n].ptr
        /\ Len(captured[1].h[n].kids) # Len(captured[2].h[n].kids) }

\* C23: a capture that succeeds stores, for a visited non-nil map, the
\* number of its entries under the key of the map and walks every key and
\* every value; for a nil map it stores one entry made from the (zero)
\* header address.  Two captures between which a reachable map gained or
\* lost entries therefore never compare equal.
C23_MapEntries ==
    /\ (out.op = "CaptureSnapshot" /\ out.err = "none")
       => \A n \in Visited :
             heap[n].kind = Kind.Map
             => LET key == evalKey(pointerOfValue(heap, n), Kind.Map) IN
                /\ key \in DOMAIN snaps[out.a].checksums
                /\ IF IsNil(heap, n)
                   THEN /\ key = evalKey(0, Kind.Map)
                        /\ snaps[out.a].checksums[key] = 0
                        /\ heap[n].kids = <<>>
                   ELSE /\ snaps[out.a].checksums[key]
                              = Len(heap[n].kids) \div 2
                        /\ \A i \in 1..Len(heap[n].kids) :
                              heap[n].kids[i] \in Visited
    /\ (BothCaptured /\ Resized # {})
       => /\ CheckImmutabilityAgainst(snaps[1], snaps[2]).err
                = "MutationDetected"
          /\ CheckImmutabilityAgainst(snaps[2], snaps[1]).err
                = "MutationDetected"

\* The second capture was made after an entry was inserted into, or deleted
\* from, the map the first capture saw.
C23_Witness ==
    /\ out.op = "CaptureSnapshot" /\ out.err = "none"
    /\ BothCaptured
    /\ Resized # {}

\* The address a pointer or interface refers to; 0 when it is nil.
Target(h, n) == IF IsNil(h, n) THEN 0 ELSE h[h[n].kids[1]].loc

\* The pointers and interfaces both captures reached that referred to
\* different addresses at the two captures.
Retargeted ==
    { n \in Reach(captured[1].h, captured[1].v)
              \cap Reach(captured[2].h, captured[2].v) :
        /\ captured[1].h[n].kind \in { Kind.Ptr, Kind.Interface }
        /\ Target(captured[1].h, n) # Target(captured[2].h, n) }

\* C24 (as claimed): the entry of a visited pointer or interface is made
\* from the address it refers to (zero for nil), so two captures between
\* which a reachable pointer or interface was made to refer to another
\* address never compare equal, also when the old and the new pointee hold
\* the same contents.
C24_ReferenceIdentity ==
    /\ (out.op = "CaptureSnapshot" /\ out.err = "none")
       => \A n \in Visited :
             heap[n].kind \in { Kind.Ptr, Kind.Interface }
             => LET key == evalKey(Target(heap, n), heap[n].kind) IN
                /\ key \in DOMAIN snaps[out.a].checksums
                /\ snaps[out.a].checksums[key] = U32(Target(heap, n))
    /\ (BothCaptured /\ Retargeted # {})
       => CheckImmutabilityAgainst(snaps[1], snaps[2]).err
             = "MutationDetected"

\* C26 (as claimed): a visited non-nil pointer or interface is passed over
\* only when the traversal has recorded a reference to the same pointee
\* before, so in a capture that succeeds the value every visited reference
\* refers to has been walked.
C26_CycleCheckSoundness ==
    (out.op = "CaptureSnapshot" /\ out.err = "none")
    => \A r \in VisitedReferences : heap[r].kids[1] \in Visited

\* The last capture into snapshot s walked into an unsupported kind below
\* the root and panicked with UnsupportedTypeError.
Aborted(s) == captured[s].err = "UnsupportedType" /\ captured[s].v # 0

\* C30 (as claimed): a capture that panics with UnsupportedTypeError in the
\* middle of the traversal leaves no entry in its destination, and
\* CheckImmutabilityAgainst on such a destination panics with
\* InvalidSnapshotStateError.
C30_AbortedCaptureUnusable ==
    /\ (out.op = "CaptureSnapshot" /\ Aborted(out.a))
       => DOMAIN snaps[out.a].checksums = {}
    /\ (out.op = "Check" /\ (Aborted(out.a) \/ Aborted(out.b)))
       => out.err = "InvalidSnapshotState"

\* C29 (as claimed): a capture that succeeds leaves at least one entry in
\* its destination, so CheckImmutabilityAgainst on two snapshots that were
\* captured successfully, and every call of a function EnsureImmutability
\* returned, never panics with InvalidSnapshotStateError.
C29_NeverEmpty ==
    /\ (out.op \in { "CaptureSnapshot", "EnsureImmutability",
                     "CheckImmutabilityOnFinalization" }
           /\ out.err = "none")
       => DOMAIN snaps[out.a].checksums # {}
    /\ (out.op = "Check" /\ captured[out.a].err = "none"
           /\ captured[out.b].err = "none")
       => out.err # "InvalidSnapshotState"
    /\ out.op = "Callback" => out.err # "InvalidSnapshotState"

\* The goroutines that hold task k and have not run it yet.
Holders(k) ==
    { w \in WorkerIds :
        workers[w].pc \in { "task", "t" } /\ workers[w].task = k }

\* A task runInPool has not seen is with nobody; one it has returned from
\* is with exactly one goroutine of the pool until that goroutine has run
\* it, once; the goroutine of the caller (0) runs none.
Delivered ==
    \A k \in TaskIds :
        CASE tasks[k].state = "new" ->
                tasks[k].runs = 0 /\ Holders(k) = {}
          [] tasks[k].state = "held" ->
                tasks[k].runs = 0 /\ Cardinality(Holders(k)) = 1
          [] tasks[k].state = "done" ->
                /\ tasks[k].runs = 1
                /\ tasks[k].by \in WorkerIds
                /\ Holders(k) = {}

\* C27: under every interleaving of submissions, time-outs and exits,
\* runInPool returns with the task in the hands of one goroutine other
\* than the caller's, a receiving one or one started for the task, no task
\* is run twice or dropped, and every task handed over is run.
C27_ExactlyOnce ==
    /\ []Delivered
    /\ \A k \in TaskIds :
          (tasks[k].state = "held")
              ~> (tasks[k].state = "done" /\ tasks[k].runs = 1)

\* All tasks have run: two of them on one goroutine, which received the
\* second while idle, and one on a goroutine started while the first was
\* busy.
C27_Witness ==
    /\ \A k \in TaskIds : tasks[k].state = "done"
    /\ \E w, u \in WorkerIds :
          w # u /\ workers[w].armed >= 2 /\ workers[u].armed >= 1

\* C28: the ticker of a goroutine has been armed once for every task the
\* goroutine has run; a goroutine blocked in the select gets a task or
\* exits; and in the end no goroutine of the pool is left.
C28_WorkersExit ==
    /\ [](\A w \in WorkerIds :
             workers[w].armed
                = Cardinality({ k \in TaskIds : /\ tasks[k].state = "done"
                                                /\ tasks[k].by = w }))
    /\ \A w \in WorkerIds :
          (workers[w].pc = "select")
              ~> (workers[w].pc \in { "t", "exited" })
    /\ <>[](\A w \in WorkerIds : workers[w].pc \in { "none", "exited" })

\* Two goroutines have exited, one of them after it had run two tasks, and
\* none is left.
C28_Witness ==
    /\ \A w \in WorkerIds : workers[w].pc \in { "none", "exited" }
    /\ \E w, u \in WorkerIds :
          /\ w # u
          /\ workers[w].pc = "exited" /\ workers[w].armed >= 2
          /\ workers[u].pc = "exited"
====
